---------------------------- MODULE Spec2Model ----------------------------
(* A model of backtest_daily.py: the per-session entry/exit scan of         *)
(* backtest_unified_15m, the metrics of compute_metrics, the incremental    *)
(* merge of append_trade_log into the Excel trade log, and main's run.      *)
(*                                                                          *)
(* Prices are integers (the code's floats are only compared, added and      *)
(* subtracted).  A python date is an integer day number; a pandas           *)
(* Timestamp is a record [date, t] with t the minutes since midnight.       *)
(* Python's None is the string "None" for pos and 0 for entry / entry_idx   *)
(* (prices are positive, and neither is read while pos is None).            *)
EXTENDS Integers, Sequences, FiniteSets, TLC

VARIABLES
    store,       \* the file at output_path: [kind, cols, rows]
    op,          \* the last operation: "none", "run", "rerun", "merge"
    status,      \* how it ended: "idle", "done", "crashed"
    data,        \* the bar frame the last run downloaded
    prevStore,   \* the file before the last operation
    trade_log,   \* what backtest_unified_15m returned in the last run
    batch,       \* the frame the last operation handed to append_trade_log
    out,         \* what the last run printed
    wrote,       \* whether the last operation wrote the file
    sday,        \* session scan: the day's bars
    sdate,       \* session scan: the day
    sexisting,   \* session scan: existing_dates
    sphase,      \* session scan: "idle", "start", "entry", "exit", "fallback", "end"
    si,          \* session scan: the loop index i (0-based, as in the code)
    sscan,       \* session scan: [pos, entry, entry_idx, results, brk]
    slevels      \* session scan: [res_level, sup_level, afternoon, day_close]

vars == <<store, op, status, data, prevStore, trade_log, batch, out, wrote,
          sday, sdate, sexisting, sphase, si, sscan, slevels>>

runVars == <<store, op, status, data, prevStore, trade_log, batch, out, wrote>>
scanVars == <<sday, sdate, sexisting, sphase, si, sscan, slevels>>

---------------------------------------------------------------------------
(* Bounds of the model. *)

MaxDate == 2      \* the calendar days 1..MaxDate
MaxBatch == 2     \* rows of a batch handed directly to append_trade_log
MaxAft == 4       \* bars of a scanned session from 11:30 on
MaxTrades == 3    \* rows of a trade log handed directly to compute_metrics
MaxPnL == 2       \* PnL of such a row, -MaxPnL..MaxPnL

(* Program constants. *)

T0930 == 570              \* "09:30", minutes since midnight
T1130 == 690              \* "11:30"
T1600 == 960              \* "16:00"
MinMorningBars == 8       \* len(morning) < 8
BarMinutes == 15          \* --interval default "15m"

Dates == 1..MaxDate

---------------------------------------------------------------------------
(* Sequences. *)

RECURSIVE SeqToSet(_)
SeqToSet(s) == IF s = <<>> THEN {} ELSE {Head(s)} \cup SeqToSet(Tail(s))

RECURSIVE SumSeq(_)
SumSeq(s) == IF s = <<>> THEN 0 ELSE Head(s) + SumSeq(Tail(s))

Max2(a, b) == IF a >= b THEN a ELSE b
Min2(a, b) == IF a <= b THEN a ELSE b

RECURSIVE MaxSeq(_)
MaxSeq(s) == IF Len(s) = 1 THEN s[1] ELSE Max2(Head(s), MaxSeq(Tail(s)))

RECURSIVE MinSeq(_)
MinSeq(s) == IF Len(s) = 1 THEN s[1] ELSE Min2(Head(s), MinSeq(Tail(s)))

Column(rows, c) == [k \in 1..Len(rows) |-> rows[k][c]]

---------------------------------------------------------------------------
(* Bars and the frame download_data returns: a sequence of bars in index    *)
(* order, each [date, t, Open, High, Low, Close].                           *)

Bar(d, t, o, h, l, c) ==
    [date |-> d, t |-> t, Open |-> o, High |-> h, Low |-> l, Close |-> c]

\* df.groupby(df.index.date): the groups' keys, iterated in ascending order
GroupKeys(df) == {df[k].date : k \in 1..Len(df)}

\* one group: the rows of that date, in index order
DayData(df, d) == SelectSeq(df, LAMBDA b : b.date = d)

\* DataFrame.between_time(start, end): both ends included
between_time(day_data, start, end) ==
    SelectSeq(day_data, LAMBDA b : start <= b.t /\ b.t <= end)

\* pd.concat([morning["Open"], morning["Close"]])
morning_oc(morning) == Column(morning, "Open") \o Column(morning, "Close")

---------------------------------------------------------------------------
(* backtest_unified_15m: one Trade dict, and the body of the loop over the  *)
(* afternoon bars.  afternoon.iloc[i] is afternoon[i + 1] here.             *)

\* "Profit" if pnl > 0 else ("Loss" if pnl < 0 else "Flat")
ResultOf(pnl) == IF pnl > 0 THEN "Profit" ELSE IF pnl < 0 THEN "Loss" ELSE "Flat"

\* the dict appended to results
TradeDict(date, pos, entry, exit_price, day_close, pnl, reason) ==
    ("Date" :> date) @@ ("Type" :> pos) @@ ("Entry" :> entry) @@
    ("Exit" :> exit_price) @@ ("Close" :> day_close) @@ ("PnL" :> pnl) @@
    ("Result" :> ResultOf(pnl)) @@ ("Exit Reason" :> reason)

\* pos = None, entry = None, entry_idx = None, and the run's results so far
ScanInit(results) ==
    [pos |-> "None", entry |-> 0, entry_idx |-> 0, results |-> results, brk |-> FALSE]

\* the LONG signal taken without the touch of support
EntryLogic_no_support_touch(s, i, afternoon, sup_level, res_level) ==
    IF s.pos = "None" /\ i <= Len(afternoon) - 3
    THEN LET curr == afternoon[i + 1]
             c1 == afternoon[i + 2]
             opened(dir) == [s EXCEPT !.pos = dir,
                                      !.entry = afternoon[i + 3].Open,
                                      !.entry_idx = i + 2]
         IN  IF curr.Open > sup_level /\ curr.Close > sup_level
             THEN IF c1.High > curr.High THEN opened("LONG") ELSE s
             ELSE IF curr.High >= res_level /\ curr.Open < res_level
                                            /\ curr.Close < res_level
                  THEN IF c1.Low < curr.Low THEN opened("SHORT") ELSE s
                  ELSE s
    ELSE s

\* the position opened on the confirmation bar instead of the bar after it
EntryLogic_entry_at_confirmation(s, i, afternoon, sup_level, res_level) ==
    IF s.pos = "None" /\ i <= Len(afternoon) - 3
    THEN LET curr == afternoon[i + 1]
             c1 == afternoon[i + 2]
             opened(dir) == [s EXCEPT !.pos = dir,
                                      !.entry = afternoon[i + 2].Open,
                                      !.entry_idx = i + 1]
         IN  IF curr.Low <= sup_level /\ curr.Open > sup_level /\ curr.Close > sup_level
             THEN IF c1.High > curr.High THEN opened("LONG") ELSE s
             ELSE IF curr.High >= res_level /\ curr.Open < res_level
                                            /\ curr.Close < res_level
                  THEN IF c1.Low < curr.Low THEN opened("SHORT") ELSE s
                  ELSE s
    ELSE s

\* lines 66-87: the entry rule at bar i
EntryLogic(s, i, afternoon, sup_level, res_level) ==
    IF s.pos = "None" /\ i <= Len(afternoon) - 3
    THEN LET curr == afternoon[i + 1]
             c1 == afternoon[i + 2]
             opened(dir) == [s EXCEPT !.pos = dir,
                                      !.entry = afternoon[i + 3].Open,
                                      !.entry_idx = i + 2]
         IN  IF curr.Low <= sup_level /\ curr.Open > sup_level /\ curr.Close > sup_level
             THEN IF c1.High > curr.High THEN opened("LONG") ELSE s
             ELSE IF curr.High >= res_level /\ curr.Open < res_level
                                            /\ curr.Close < res_level
                  THEN IF c1.Low < curr.Low THEN opened("SHORT") ELSE s
                  ELSE s
    ELSE s

\* the two exit reasons exchanged
ConfirmedExit_reasons_swapped(s, i, afternoon, sup_level, res_level, day_close, date) ==
    IF s.pos # "None" /\ i < Len(afternoon) - 1
    THEN LET curr == afternoon[i + 1]
             next_bar == afternoon[i + 2]
             exit_price == next_bar.Open
         IN  IF s.pos = "LONG" /\ curr.High >= res_level
             THEN IF next_bar.Low < curr.Low
                  THEN [s EXCEPT !.results = Append(@,
                            TradeDict(date, s.pos, s.entry, exit_price, day_close,
                                      exit_price - s.entry, "Support Confirmed")),
                                 !.brk = TRUE]
                  ELSE s
             ELSE IF s.pos = "SHORT" /\ curr.Low <= sup_level
                  THEN IF next_bar.High > curr.High
                       THEN [s EXCEPT !.results = Append(@,
                                 TradeDict(date, s.pos, s.entry, exit_price, day_close,
                                           s.entry - exit_price, "Resistance Confirmed")),
                                      !.brk = TRUE]
                       ELSE s
                  ELSE s
    ELSE s

\* the level tests of the exit taken strictly
ConfirmedExit_strict(s, i, afternoon, sup_level, res_level, day_close, date) ==
    IF s.pos # "None" /\ i < Len(afternoon) - 1
    THEN LET curr == afternoon[i + 1]
             next_bar == afternoon[i + 2]
             exit_price == next_bar.Open
         IN  IF s.pos = "LONG" /\ curr.High > res_level
             THEN IF next_bar.Low < curr.Low
                  THEN [s EXCEPT !.results = Append(@,
                            TradeDict(date, s.pos, s.entry, exit_price, day_close,
                                      exit_price - s.entry, "Resistance Confirmed")),
                                 !.brk = TRUE]
                  ELSE s
             ELSE IF s.pos = "SHORT" /\ curr.Low < sup_level
                  THEN IF next_bar.High > curr.High
                       THEN [s EXCEPT !.results = Append(@,
                                 TradeDict(date, s.pos, s.entry, exit_price, day_close,
                                           s.entry - exit_price, "Support Confirmed")),
                                      !.brk = TRUE]
                       ELSE s
                  ELSE s
    ELSE s

\* lines 92-132: the confirmed exit at bar i
ConfirmedExit(s, i, afternoon, sup_level, res_level, day_close, date) ==
    IF s.pos # "None" /\ i < Len(afternoon) - 1
    THEN LET curr == afternoon[i + 1]
             next_bar == afternoon[i + 2]
             exit_price == next_bar.Open
         IN  IF s.pos = "LONG" /\ curr.High >= res_level
             THEN IF next_bar.Low < curr.Low
                  THEN [s EXCEPT !.results = Append(@,
                            TradeDict(date, s.pos, s.entry, exit_price, day_close,
                                      exit_price - s.entry, "Resistance Confirmed")),
                                 !.brk = TRUE]
                  ELSE s
             ELSE IF s.pos = "SHORT" /\ curr.Low <= sup_level
                  THEN IF next_bar.High > curr.High
                       THEN [s EXCEPT !.results = Append(@,
                                 TradeDict(date, s.pos, s.entry, exit_price, day_close,
                                           s.entry - exit_price, "Support Confirmed")),
                                      !.brk = TRUE]
                       ELSE s
                  ELSE s
    ELSE s

\* the fallback exit priced at the last afternoon bar's Open
FallbackExit_last_open(s, i, afternoon, day_close, date) ==
    IF s.pos # "None" /\ i = Len(afternoon) - 1
    THEN LET exit_price == afternoon[i + 1].Open
             pnl == IF s.pos = "LONG" THEN exit_price - s.entry
                                      ELSE s.entry - exit_price
         IN  [s EXCEPT !.results = Append(@,
                  TradeDict(date, s.pos, s.entry, exit_price, day_close, pnl,
                            "Closing Price")),
                       !.brk = TRUE]
    ELSE s

\* the last bar taken to be index len(afternoon)
FallbackExit_off_by_one(s, i, afternoon, day_close, date) ==
    IF s.pos # "None" /\ i = Len(afternoon)
    THEN LET exit_price == day_close
             pnl == IF s.pos = "LONG" THEN exit_price - s.entry
                                      ELSE s.entry - exit_price
         IN  [s EXCEPT !.results = Append(@,
                  TradeDict(date, s.pos, s.entry, exit_price, day_close, pnl,
                            "Closing Price")),
                       !.brk = TRUE]
    ELSE s

\* the LONG formula used for both directions
FallbackExit_long_only(s, i, afternoon, day_close, date) ==
    IF s.pos # "None" /\ i = Len(afternoon) - 1
    THEN [s EXCEPT !.results = Append(@,
             TradeDict(date, s.pos, s.entry, day_close, day_close,
                       day_close - s.entry, "Closing Price")),
                   !.brk = TRUE]
    ELSE s

\* lines 135-150: the fallback exit at the last afternoon bar
FallbackExit(s, i, afternoon, day_close, date) ==
    IF s.pos # "None" /\ i = Len(afternoon) - 1
    THEN LET exit_price == day_close
             pnl == IF s.pos = "LONG" THEN exit_price - s.entry
                                      ELSE s.entry - exit_price
         IN  [s EXCEPT !.results = Append(@,
                  TradeDict(date, s.pos, s.entry, exit_price, day_close, pnl,
                            "Closing Price")),
                       !.brk = TRUE]
    ELSE s

\* one iteration of "for i in range(len(afternoon))"; brk is the break
LoopBody(s, i, afternoon, sup_level, res_level, day_close, date) ==
    LET s1 == EntryLogic(s, i, afternoon, sup_level, res_level)
        s2 == ConfirmedExit(s1, i, afternoon, sup_level, res_level, day_close, date)
    IN  IF s2.brk THEN s2 ELSE FallbackExit(s2, i, afternoon, day_close, date)

RECURSIVE ScanFrom(_, _, _, _, _, _, _)
ScanFrom(s, i, afternoon, sup_level, res_level, day_close, date) ==
    IF s.brk \/ i >= Len(afternoon)
    THEN s
    ELSE ScanFrom(LoopBody(s, i, afternoon, sup_level, res_level, day_close, date),
                  i + 1, afternoon, sup_level, res_level, day_close, date)

\* the existing_dates test left out
SkipsDay_recompute(date, day_data, existing_dates) ==
    Len(between_time(day_data, T0930, T1130)) < MinMorningBars

\* lines 44-48: the two "continue"s
SkipsDay(date, day_data, existing_dates) ==
    \/ date \in existing_dates
    \/ Len(between_time(day_data, T0930, T1130)) < MinMorningBars

\* lines 50-57: the levels, the afternoon and the day's closing price
DayLevels(day_data) ==
    LET morning == between_time(day_data, T0930, T1130)
    IN  [res_level |-> MaxSeq(morning_oc(morning)),
         sup_level |-> MinSeq(morning_oc(morning)),
         afternoon |-> between_time(day_data, T1130, T1600),
         day_close |-> day_data[Len(day_data)].Close]

\* one pass of "for date, day_data in days": results after the day
backtest_day(results, date, day_data, existing_dates) ==
    IF SkipsDay(date, day_data, existing_dates)
    THEN results
    ELSE LET lv == DayLevels(day_data)
         IN  ScanFrom(ScanInit(results), 0, lv.afternoon, lv.sup_level,
                      lv.res_level, lv.day_close, date).results

RECURSIVE backtest_days(_, _, _, _)
backtest_days(results, df, keys, existing_dates) ==
    IF keys = {}
    THEN results
    ELSE LET d == CHOOSE x \in keys : \A y \in keys : x <= y
         IN  backtest_days(backtest_day(results, d, DayData(df, d), existing_dates),
                           df, keys \ {d}, existing_dates)

\* pd.DataFrame(results): no columns at all when results is empty
DataFrame(results) ==
    [cols |-> IF results = <<>> THEN {} ELSE DOMAIN results[1], rows |-> results]

backtest_unified_15m(df, existing_dates) ==
    DataFrame(backtest_days(<<>>, df, GroupKeys(df), existing_dates))

---------------------------------------------------------------------------
(* compute_metrics.  win_rate, a mean of booleans, is the pair              *)
(* <<wins, count>>; the empty log's 0.0 is <<0, 1>>.                        *)

RECURSIVE CumSum(_, _)
CumSum(s, acc) ==
    IF s = <<>> THEN <<>> ELSE <<acc + Head(s)>> \o CumSum(Tail(s), acc + Head(s))

RECURSIVE CumMax(_, _)
\* the running maximum never below zero, the equity before the first trade
CumMax_from_zero(s, m) ==
    IF s = <<>> THEN <<>>
    ELSE <<Max2(Max2(m, 0), Head(s))>> \o CumMax(Tail(s), Max2(Max2(m, 0), Head(s)))

CumMax(s, m) ==
    IF s = <<>> THEN <<>>
    ELSE <<Max2(m, Head(s))>> \o CumMax(Tail(s), Max2(m, Head(s)))

\* DataFrame.empty: no rows, or no columns
IsEmpty(frame) == frame.rows = <<>> \/ frame.cols = {}

compute_metrics(frame) ==
    IF IsEmpty(frame)
    THEN [trades |-> 0, win_rate |-> <<0, 1>>, max_drawdown |-> 0, total_pnl |-> 0]
    ELSE LET pnl == Column(frame.rows, "PnL")
             equity == CumSum(pnl, 0)
             cummax == CumMax(equity, equity[1])
             drawdown == [k \in 1..Len(pnl) |-> equity[k] - cummax[k]]
         IN  [trades |-> Len(pnl),
              win_rate |-> <<Len(SelectSeq(pnl, LAMBDA x : x > 0)), Len(pnl)>>,
              max_drawdown |-> MinSeq(drawdown),
              total_pnl |-> SumSeq(pnl)]

\* f'{win_rate * 100:.2f}%': the percentage rounded to hundredths, as text
FormatPct(win_rate) ==
    <<(2 * 10000 * win_rate[1] + win_rate[2]) \div (2 * win_rate[2]), "%">>

---------------------------------------------------------------------------
(* The Excel file at output_path.  kind is "missing" (no file),             *)
(* "unreadable" (a file pd.read_excel raises on) or "table".  to_excel      *)
(* writes a date as a datetime cell, which read_excel returns as a          *)
(* Timestamp at midnight.                                                   *)

Missing == [kind |-> "missing", cols |-> {}, rows |-> <<>>]
Unreadable == [kind |-> "unreadable", cols |-> {}, rows |-> <<>>]

Exists(file) == file.kind # "missing"

\* datetime.date -> Timestamp (pd.to_datetime, and an Excel date cell)
to_datetime(d) == [date |-> d, t |-> 0]

\* the Timestamp taken for the day before (midnight moved across a zone)
dt_date_day_before(ts) == ts.date - 1

\* Timestamp -> datetime.date (.dt.date)
dt_date(ts) == ts.date

\* the "Date" column converted, when the frame has one: with "to_datetime"
\* dates become Timestamps, with "dt_date" Timestamps become dates
MapDate(frame, conv) ==
    IF "Date" \in frame.cols
    THEN [frame EXCEPT !.rows = [k \in 1..Len(frame.rows) |->
            [frame.rows[k] EXCEPT !["Date"] =
                IF conv = "to_datetime" THEN to_datetime(@) ELSE dt_date(@)]]]
    ELSE frame

\* DataFrame.to_excel(output_path, index=False)
to_excel(frame) ==
    [kind |-> "table", cols |-> frame.cols, rows |-> MapDate(frame, "to_datetime").rows]

\* pd.read_excel(output_path) of a readable file
read_excel(file) == [cols |-> file.cols, rows |-> file.rows]

\* get_existing_dates: every failure gives set() silently
get_existing_dates(file) ==
    IF ~Exists(file) THEN {}
    ELSE IF file.kind = "unreadable" THEN {}
    ELSE LET existing == read_excel(file)
         IN  IF "Date" \in existing.cols
             THEN SeqToSet(Column(MapDate(existing, "dt_date").rows, "Date"))
             ELSE {}

---------------------------------------------------------------------------
(* append_trade_log. *)

\* pd.concat([a, b], ignore_index=True): the union of the columns, NaN
\* where a row lacks one
Concat(a, b) ==
    LET cols == a.cols \cup b.cols
        fill(r) == [c \in cols |-> IF c \in DOMAIN r THEN r[c] ELSE "NaN"]
        rows == a.rows \o b.rows
    IN  [cols |-> cols, rows |-> [k \in 1..Len(rows) |-> fill(rows[k])]]

\* sort_values("Date").  Rows of equal date keep their order: pandas' default
\* quicksort is numpy's insertion sort on frames of up to 16 rows.  Equal
\* dates occur only among the rows of one batch, the stored dates being
\* filtered out of it before the concat.
RECURSIVE InsertByDate(_, _)
InsertByDate(sorted, r) ==
    IF sorted = <<>> THEN <<r>>
    ELSE IF r["Date"] < Head(sorted)["Date"] THEN <<r>> \o sorted
    ELSE <<Head(sorted)>> \o InsertByDate(Tail(sorted), r)

RECURSIVE SortRows(_)
SortRows(rows) ==
    IF rows = <<>> THEN <<>>
    ELSE InsertByDate(SortRows(SubSeq(rows, 1, Len(rows) - 1)), rows[Len(rows)])

sort_values(frame) == [frame EXCEPT !.rows = SortRows(@)]

\* drop_duplicates(subset=["Date"], keep="first")
RECURSIVE DropDupRows(_, _)
DropDupRows(rows, seen) ==
    IF rows = <<>> THEN <<>>
    ELSE IF Head(rows)["Date"] \in seen THEN DropDupRows(Tail(rows), seen)
    ELSE <<Head(rows)>> \o DropDupRows(Tail(rows), seen \cup {Head(rows)["Date"]})

\* drop_duplicates left out
drop_duplicates_none(frame) == frame

drop_duplicates(frame) == [frame EXCEPT !.rows = DropDupRows(@, {})]

\* trade_log[~trade_log['Date'].isin(existing_dates)]
NewTrades(frame, existing_dates) ==
    IF "Date" \in frame.cols
    THEN [frame EXCEPT !.rows = SelectSeq(@, LAMBDA r : r["Date"] \notin existing_dates)]
    ELSE frame

\* lines 176-195: existing + the rows of new dates, or the batch alone
Combined(file, frame) ==
    IF Exists(file)
    THEN LET existing == MapDate(read_excel(file), "dt_date")
             log == MapDate(MapDate(frame, "to_datetime"), "dt_date")
             existing_dates == IF "Date" \in existing.cols
                               THEN SeqToSet(Column(existing.rows, "Date"))
                               ELSE {}
             new_trades == NewTrades(log, existing_dates)
         IN  IF ~IsEmpty(new_trades) THEN Concat(existing, new_trades) ELSE existing
    ELSE MapDate(MapDate(frame, "to_datetime"), "dt_date")

\* lines 197-201
SortDedup(combined) ==
    IF "Date" \in combined.cols
    THEN drop_duplicates(sort_values(combined))
    ELSE combined

\* keep="last" with the batch unfiltered: the new row replaces the stored one
RECURSIVE KeepLastRows(_)
KeepLastRows(rows) ==
    IF rows = <<>> THEN <<>>
    ELSE IF \E k \in 2..Len(rows) : rows[k]["Date"] = Head(rows)["Date"]
         THEN KeepLastRows(Tail(rows))
         ELSE <<Head(rows)>> \o KeepLastRows(Tail(rows))

append_trade_log_keep_last(file, frame) ==
    IF file.kind = "unreadable"
    THEN [raised |-> TRUE, file |-> file, combined |-> DataFrame(<<>>)]
    ELSE LET log == MapDate(MapDate(frame, "to_datetime"), "dt_date")
             all == IF Exists(file)
                    THEN Concat(MapDate(read_excel(file), "dt_date"), log)
                    ELSE log
             combined == IF "Date" \in all.cols
                         THEN [all EXCEPT !.rows = KeepLastRows(SortRows(@))]
                         ELSE all
         IN  [raised |-> FALSE, file |-> to_excel(combined), combined |-> combined]

\* the batch concatenated as it is, nothing filtered and nothing dropped
append_trade_log_blind(file, frame) ==
    IF file.kind = "unreadable"
    THEN [raised |-> TRUE, file |-> file, combined |-> DataFrame(<<>>)]
    ELSE LET log == MapDate(MapDate(frame, "to_datetime"), "dt_date")
             all == IF Exists(file)
                    THEN Concat(MapDate(read_excel(file), "dt_date"), log)
                    ELSE log
             combined == IF "Date" \in all.cols THEN sort_values(all) ELSE all
         IN  [raised |-> FALSE, file |-> to_excel(combined), combined |-> combined]

\* [raised, file, combined]: pd.read_excel raises on an unreadable file,
\* before anything is written
append_trade_log(file, frame) ==
    IF file.kind = "unreadable"
    THEN [raised |-> TRUE, file |-> file, combined |-> DataFrame(<<>>)]
    ELSE LET combined == SortDedup(Combined(file, frame))
         IN  [raised |-> FALSE, file |-> to_excel(combined), combined |-> combined]

---------------------------------------------------------------------------
(* main: one run, from get_existing_dates to the printed summary.           *)

PersistedCols == {"Date", "Entry", "Exit", "Close", "Exit Reason", "PnL", "Win Rate"}

\* trade_log["Win Rate"] = ...; trade_log = trade_log[[...]]
WithWinRate(frame, text) ==
    [cols |-> PersistedCols,
     rows |-> [k \in 1..Len(frame.rows) |->
                 [c \in PersistedCols |->
                     IF c = "Win Rate" THEN text ELSE frame.rows[k][c]]]]

\* append_trade_log called whatever the backtest returned
HasNewTrades_always(frame) == TRUE

\* the branch taken when the backtest returned trades (lines 228-236)
HasNewTrades(frame) == ~IsEmpty(frame)

\* print(...) of the summary block, and "Saved" when the file exists
Summary(file, combined_log, msgs) ==
    [msgs |-> msgs \o <<"Summary">> \o (IF Exists(file) THEN <<"Saved">> ELSE <<>>),
     report |-> <<compute_metrics(combined_log)>>]

Found(existing_dates) ==
    IF existing_dates # {} THEN <<"Found existing dates">> ELSE <<>>

\* lines 236, 247-259: after append_trade_log returned (or raised)
main_appended(file, existing_dates, log, to_write, r) ==
    IF r.raised
    THEN [status |-> "crashed", file |-> file, trade_log |-> log,
          batch |-> to_write, wrote |-> FALSE,
          out |-> [msgs |-> Found(existing_dates) \o <<"Processing">>, report |-> <<>>]]
    ELSE [status |-> "done", file |-> r.file, trade_log |-> log,
          batch |-> to_write, wrote |-> TRUE,
          out |-> Summary(r.file, r.combined, Found(existing_dates) \o <<"Processing">>)]

\* lines 228-236: the backtest returned trades
main_new_trades(file, existing_dates, log, to_write) ==
    main_appended(file, existing_dates, log, to_write, append_trade_log(file, to_write))

\* the summary of a run without new trades taken from an empty frame
main_backtested_zero(file, existing_dates, log) ==
    IF HasNewTrades(log)
    THEN main_new_trades(file, existing_dates, log,
                         WithWinRate(log, FormatPct(compute_metrics(log).win_rate)))
    ELSE [status |-> "done", file |-> file, trade_log |-> log,
          batch |-> DataFrame(<<>>), wrote |-> FALSE,
          out |-> Summary(file, DataFrame(<<>>),
                          Found(existing_dates) \o <<"No trades found">>)]

\* lines 228-259
main_backtested(file, existing_dates, log) ==
    IF HasNewTrades(log)
    THEN main_new_trades(file, existing_dates, log,
                         WithWinRate(log, FormatPct(compute_metrics(log).win_rate)))
    ELSE [status |-> "done", file |-> file, trade_log |-> log,
          batch |-> DataFrame(<<>>), wrote |-> FALSE,
          out |-> IF existing_dates # {}
                  THEN Summary(file, read_excel(file),
                               Found(existing_dates) \o <<"No new trades found">>)
                  ELSE Summary(file, DataFrame(<<>>), <<"No trades found">>)]

main_fetched(file, df, existing_dates) ==
    main_backtested(file, existing_dates, backtest_unified_15m(df, existing_dates))

\* [status, file, trade_log, batch, out, wrote]
main(file, df) == main_fetched(file, df, get_existing_dates(file))

---------------------------------------------------------------------------
(* The bar series a run may download: per calendar day one of a few         *)
(* sessions of 15-minute bars.  Morning bars start at 09:30; the first      *)
(* spans 2..4 and the rest sit at 3, so that support is 2 and resistance 4  *)
(* unless the 11:30 bar moves them.                                         *)

\* <<Open, High, Low, Close>>
ShapeN == <<3, 3, 3, 3>>      \* touches neither level
ShapeB == <<3, 3, 2, 3>>      \* tests support 2 and rejects it
ShapeC == <<3, 4, 3, 3>>      \* tests resistance 4 and rejects it
ShapeD == <<3, 4, 2, 3>>      \* tests both
ShapeE == <<4, 5, 4, 5>>      \* above the range
ShapeF == <<2, 2, 1, 1>>      \* below the range
ShapeG == <<2, 3, 2, 3>>      \* touches support and opens on it
ShapeH == <<3, 5, 1, 3>>      \* outside bar: beyond both levels

MorningBars(d, n) ==
    [k \in 1..n |-> IF k = 1 THEN Bar(d, T0930, 2, 4, 2, 4)
                             ELSE Bar(d, T0930 + BarMinutes * (k - 1), 3, 3, 3, 3)]

LaterBars(d, start, shapes) ==
    [k \in 1..Len(shapes) |->
        Bar(d, start + BarMinutes * (k - 1),
            shapes[k][1], shapes[k][2], shapes[k][3], shapes[k][4])]

\* n morning bars from 09:30, then the shapes from start on
Session(d, n, start, shapes) == MorningBars(d, n) \o LaterBars(d, start, shapes)

LongProfit == <<ShapeB, ShapeC, ShapeE>>
ShortLoss == <<ShapeC, ShapeB, ShapeB, ShapeE>>

DaySessions(d) ==
    { <<>>,
      Session(d, MinMorningBars, T1130, LongProfit),
      Session(d, MinMorningBars, T1130, ShortLoss),
      Session(d, MinMorningBars - 1, T1130 + BarMinutes, LongProfit) }

RECURSIVE BarSeries(_)
BarSeries(d) ==
    IF d > MaxDate THEN {<<>>}
    ELSE {s \o rest : s \in DaySessions(d), rest \in BarSeries(d + 1)}

(* The batches handed directly to append_trade_log: rows in the persisted   *)
(* schema, in any order of dates, dates repeated or not, the k-th row       *)
(* carrying the values k; and pd.DataFrame().                               *)

BatchRow(d, v) ==
    ("Date" :> d) @@ ("Entry" :> 3) @@ ("Exit" :> 3 + v) @@ ("Close" :> 3 + v) @@
    ("Exit Reason" :> "Closing Price") @@ ("PnL" :> v) @@
    ("Win Rate" :> FormatPct(<<1, 1>>))

RECURSIVE RowSeqs(_)
RowSeqs(n) ==
    IF n = 0 THEN {<<>>}
    ELSE RowSeqs(n - 1) \cup
         {Append(s, BatchRow(d, n)) : s \in {x \in RowSeqs(n - 1) : Len(x) = n - 1}, d \in Dates}

Batches ==
    {DataFrame(<<>>)} \cup
    {[cols |-> PersistedCols, rows |-> rows] : rows \in RowSeqs(MaxBatch) \ {<<>>}}

---------------------------------------------------------------------------
(* The operations on one output file.  A behaviour is a series of runs of   *)
(* main, or a series of direct calls of append_trade_log.                   *)

NoFrame == DataFrame(<<>>)
NoOut == [msgs |-> <<>>, report |-> <<>>]
ScanIdle ==
    /\ sday = <<>> /\ sdate = 0 /\ sexisting = {} /\ sphase = "idle"
    /\ si = 0 /\ sscan = ScanInit(<<>>) /\ slevels = <<>>

Init ==
    /\ store \in {Missing, Unreadable}
    /\ op = "none" /\ status = "idle"
    /\ data = <<>> /\ prevStore = store
    /\ trade_log = NoFrame /\ batch = NoFrame /\ out = NoOut /\ wrote = FALSE
    /\ ScanIdle

RunWith(df, name) ==
    \E r \in {main(store, df)} :
        /\ op' = name
        /\ data' = df
        /\ prevStore' = store
        /\ store' = r.file
        /\ status' = r.status
        /\ trade_log' = r.trade_log
        /\ batch' = r.batch
        /\ out' = r.out
        /\ wrote' = r.wrote
        /\ UNCHANGED scanVars

\* a scheduled run on freshly downloaded bars
Run ==
    /\ op \in {"none", "run", "rerun"}
    /\ \E df \in BarSeries(1) : RunWith(df, "run")

\* the run repeated on the same bars
Rerun ==
    /\ op \in {"run", "rerun"}
    /\ RunWith(data, "rerun")

\* a direct call of append_trade_log, by a caller that only merges
Merge ==
    /\ op \in {"none", "merge"}
    /\ \E b \in Batches :
        \E r \in {append_trade_log(store, b)} :
            /\ op' = "merge"
            /\ prevStore' = store
            /\ store' = r.file
            /\ status' = IF r.raised THEN "crashed" ELSE "done"
            /\ batch' = b
            /\ wrote' = ~r.raised
            /\ data' = <<>> /\ trade_log' = NoFrame /\ out' = NoOut
            /\ UNCHANGED scanVars

Next == Run \/ Rerun \/ Merge

Spec == Init /\ [][Next]_vars

---------------------------------------------------------------------------
(* compute_metrics on its own, applied to any short trade log in date       *)
(* order.                                                                   *)

RECURSIVE PnLSeqs(_)
PnLSeqs(n) ==
    IF n = 0 THEN {<<>>}
    ELSE PnLSeqs(n - 1) \cup
         {Append(s, v) : s \in {x \in PnLSeqs(n - 1) : Len(x) = n - 1},
                         v \in (0 - MaxPnL)..MaxPnL}

\* the k-th trade is the trade of day k
TradeLogs ==
    {DataFrame([k \in 1..Len(pnl) |-> BatchRow(k, pnl[k])]) : pnl \in PnLSeqs(MaxTrades)}

InitMetrics ==
    /\ store = Missing /\ prevStore = Missing
    /\ op = "none" /\ status = "idle"
    /\ data = <<>>
    /\ trade_log \in TradeLogs
    /\ batch = NoFrame /\ out = NoOut /\ wrote = FALSE
    /\ ScanIdle

\* metrics = compute_metrics(combined_log), and the printed summary
ComputeMetrics ==
    /\ op = "none"
    /\ op' = "metrics"
    /\ status' = "done"
    /\ out' = Summary(store, trade_log, <<>>)
    /\ UNCHANGED <<store, prevStore, data, trade_log, batch, wrote>>
    /\ UNCHANGED scanVars

NextMetrics == ComputeMetrics

SpecMetrics == InitMetrics /\ [][NextMetrics]_vars

---------------------------------------------------------------------------
(* One session of backtest_unified_15m, step by step: the two "continue"s   *)
(* and the levels, then for each afternoon bar the entry rule, the          *)
(* confirmed exit and the fallback exit, in the order of the loop body.     *)

Shapes == {ShapeN, ShapeB, ShapeC, ShapeD, ShapeE, ShapeF, ShapeG, ShapeH}

RECURSIVE ShapeSeqs(_)
ShapeSeqs(n) ==
    IF n = 0 THEN {<<>>}
    ELSE ShapeSeqs(n - 1) \cup
         {Append(s, x) : s \in {y \in ShapeSeqs(n - 1) : Len(y) = n - 1}, x \in Shapes}

\* 7 or 8 bars before 11:30, then up to MaxAft bars from 11:30 or from 11:45
ScanSessions(d) ==
    {Session(d, n, start, shapes) :
        n \in {MinMorningBars - 1, MinMorningBars},
        start \in {T1130, T1130 + BarMinutes},
        shapes \in ShapeSeqs(MaxAft)}

InitScan ==
    /\ store = Missing /\ op = "none" /\ status = "idle"
    /\ data = <<>> /\ prevStore = store
    /\ trade_log = NoFrame /\ batch = NoFrame /\ out = NoOut /\ wrote = FALSE
    /\ sdate = 1
    /\ sday \in ScanSessions(sdate)
    /\ sexisting \in {{}, {sdate}}
    /\ sphase = "start" /\ si = 0 /\ sscan = ScanInit(<<>>) /\ slevels = <<>>

\* lines 42-63: skip the day, or set the levels and enter the loop
ScanStart ==
    /\ sphase = "start"
    /\ IF SkipsDay(sdate, sday, sexisting)
       THEN sphase' = "end" /\ UNCHANGED slevels
       ELSE /\ slevels' = DayLevels(sday)
            /\ sphase' = IF Len(slevels'.afternoon) > 0 THEN "entry" ELSE "end"
    /\ UNCHANGED <<sday, sdate, sexisting, si, sscan>>
    /\ UNCHANGED runVars

\* lines 66-87
ScanEntry ==
    /\ sphase = "entry"
    /\ sscan' = EntryLogic(sscan, si, slevels.afternoon, slevels.sup_level,
                           slevels.res_level)
    /\ sphase' = "exit"
    /\ UNCHANGED <<sday, sdate, sexisting, si, slevels>>
    /\ UNCHANGED runVars

\* lines 92-132
ScanExit ==
    /\ sphase = "exit"
    /\ sscan' = ConfirmedExit(sscan, si, slevels.afternoon, slevels.sup_level,
                              slevels.res_level, slevels.day_close, sdate)
    /\ sphase' = IF sscan'.brk THEN "end" ELSE "fallback"
    /\ UNCHANGED <<sday, sdate, sexisting, si, slevels>>
    /\ UNCHANGED runVars

\* lines 135-150, and the step of the for loop
ScanFallback ==
    /\ sphase = "fallback"
    /\ sscan' = FallbackExit(sscan, si, slevels.afternoon, slevels.day_close, sdate)
    /\ IF sscan'.brk \/ si + 1 >= Len(slevels.afternoon)
       THEN sphase' = "end" /\ si' = si
       ELSE sphase' = "entry" /\ si' = si + 1
    /\ UNCHANGED <<sday, sdate, sexisting, slevels>>
    /\ UNCHANGED runVars

NextScan == ScanStart \/ ScanEntry \/ ScanExit \/ ScanFallback

SpecScan == InitScan /\ [][NextScan]_vars

---------------------------------------------------------------------------
(* Properties of the trade log and of a run. *)

IsRun == op \in {"run", "rerun"}

\* the dates of the rows a readable file holds
StoreDates(file) == {file.rows[k]["Date"].date : k \in 1..Len(file.rows)}

RowDates(frame) == {frame.rows[k]["Date"] : k \in 1..Len(frame.rows)}

\* C1: after any sequence of append_trade_log merges, from a missing or an
\* existing file and with any batches, the persisted log holds at most one
\* row per date.
C1_OneTradePerDate ==
    \A j, k \in 1..Len(store.rows) :
        j # k => store.rows[j]["Date"] # store.rows[k]["Date"]

\* a merge into a log that has rows, of a batch that repeats a date
C1_Witness ==
    /\ op = "merge" /\ wrote
    /\ prevStore.rows # <<>>
    /\ \E j, k \in 1..Len(batch.rows) :
          j < k /\ batch.rows[j]["Date"] = batch.rows[k]["Date"]
    /\ Len(store.rows) > Len(prevStore.rows)

\* C2: the append-policy merge is idempotent: merging the same batch into
\* the file a merge has just written writes that file again; and a run
\* repeated on the same bars leaves the file as the first run left it.
C2_Idempotent ==
    /\ wrote => append_trade_log(store, batch).file = store
    /\ op = "rerun" => store = prevStore

\* a run repeated on bars of a date the first run has stored
C2_Witness ==
    /\ op = "rerun" /\ status = "done"
    /\ StoreDates(store) \cap GroupKeys(data) # {}
    /\ ~IsEmpty(backtest_unified_15m(data, {}))

\* C3: under the append policy a row already in the log is never changed or
\* removed by a later merge, even when the batch holds a row of the same
\* date with other values.
C3_ExistingRowsKept ==
    \A k \in 1..Len(prevStore.rows) :
        \E j \in 1..Len(store.rows) : store.rows[j] = prevStore.rows[k]

\* a merge of a batch with a row for a stored date whose values differ
C3_Witness ==
    /\ op = "merge" /\ wrote
    /\ \E k \in 1..Len(prevStore.rows) : \E j \in 1..Len(batch.rows) :
          /\ batch.rows[j]["Date"] = prevStore.rows[k]["Date"].date
          /\ batch.rows[j]["PnL"] # prevStore.rows[k]["PnL"]

\* C4: a run on an unreadable file treats it as an empty log and completes,
\* also when it has new trades to merge into it.
C4_UnreadableStoreTolerated ==
    (IsRun /\ prevStore.kind = "unreadable" /\ HasNewTrades(trade_log))
        => status = "done"

\* C5: a run on an empty bar series ends in a failure and prints no summary.
C5_EmptySeriesFatal ==
    (IsRun /\ data = <<>>) => (status = "crashed" /\ out.report = <<>>)

\* C6: backtest_unified_15m emits no trade for a date in existing_dates, so
\* no run recomputes a date the log already holds.
C6_ExistingDatesSkipped ==
    IsRun => RowDates(trade_log) \cap StoreDates(prevStore) = {}

\* a run whose bars give a trade for a stored date and for a new one
C6_Witness ==
    /\ op = "run" /\ HasNewTrades(trade_log)
    /\ \E d \in StoreDates(prevStore) :
          ~IsEmpty(backtest_unified_15m(DayData(data, d), {}))

\* C7: in every emitted trade PnL is exit - entry for LONG and entry - exit
\* for SHORT, and Result is Profit, Loss or Flat as PnL is positive,
\* negative or zero, on each of the three exit paths.
C7_PnLAndResult ==
    \A k \in 1..Len(sscan.results) :
        LET t == sscan.results[k]
        IN  /\ t["Type"] \in {"LONG", "SHORT"}
            /\ t["Type"] = "LONG" => t["PnL"] = t["Exit"] - t["Entry"]
            /\ t["Type"] = "SHORT" => t["PnL"] = t["Entry"] - t["Exit"]
            /\ t["Result"] = "Profit" <=> t["PnL"] > 0
            /\ t["Result"] = "Loss" <=> t["PnL"] < 0
            /\ t["Result"] = "Flat" <=> t["PnL"] = 0

\* a SHORT closed at the closing price with a loss
C7_Witness ==
    \E k \in 1..Len(sscan.results) :
        /\ sscan.results[k]["Type"] = "SHORT"
        /\ sscan.results[k]["Exit Reason"] = "Closing Price"
        /\ sscan.results[k]["PnL"] < 0
        /\ sscan.results[k]["Result"] = "Loss"

\* C8: a session with fewer than 8 bars in its reference window
\* [09:30, 11:30) emits no trade.
C8_ShortReferenceNoTrade ==
    LET reference == SelectSeq(sday, LAMBDA b : T0930 <= b.t /\ b.t < T1130)
    IN  Len(reference) < MinMorningBars => sscan.results = <<>>

\* C9: every row a run persists carries the columns Date, Entry, Exit,
\* Close, Exit Reason, PnL, Win Rate, Type and Result, and the rows are in
\* ascending order of Date.
C9_PersistedSchema ==
    IsRun =>
        /\ \A k \in 1..Len(store.rows) :
              {"Date", "Entry", "Exit", "Close", "Exit Reason", "PnL",
               "Win Rate", "Type", "Result"} \subseteq DOMAIN store.rows[k]
        /\ \A k \in 1..(Len(store.rows) - 1) :
              store.rows[k]["Date"].date < store.rows[k + 1]["Date"].date

\* C10: a run that computes no new trade writes nothing, and the file
\* after the run is the file before it.
C10_NoTradeNoWrite ==
    (IsRun /\ IsEmpty(trade_log)) => (~wrote /\ store = prevStore)

\* a completed run on bars of stored dates only
C10_Witness ==
    /\ op = "run" /\ status = "done" /\ IsEmpty(trade_log)
    /\ data # <<>> /\ store.rows # <<>>
    /\ ~IsEmpty(backtest_unified_15m(data, {}))

ZeroMetrics == [trades |-> 0, win_rate |-> <<0, 1>>, max_drawdown |-> 0, total_pnl |-> 0]

\* C11 as stated: a run in which no session produces a trade reports
\* all-zero metrics, whether or not the file already holds trades.
C11_NoTradeAllZero ==
    (IsRun /\ status = "done" /\ IsEmpty(trade_log)) => out.report = <<ZeroMetrics>>

\* C11: a run in which no session produces a trade reports the metrics of
\* the stored log: all zero when get_existing_dates finds no stored date,
\* and otherwise the count, win rate, drawdown and total of the stored rows.
C11_NoTradeReportsStore ==
    (IsRun /\ status = "done" /\ IsEmpty(trade_log)) =>
        /\ Len(out.report) = 1
        /\ IF prevStore.rows = <<>>
           THEN out.report[1] = ZeroMetrics
           ELSE LET pnl == Column(prevStore.rows, "PnL")
                IN  /\ out.report[1].trades = Len(prevStore.rows)
                    /\ out.report[1].total_pnl = SumSeq(pnl)
                    /\ out.report[1].win_rate =
                          <<Cardinality({k \in 1..Len(pnl) : pnl[k] > 0}), Len(pnl)>>
                    /\ out.report[1] = compute_metrics(read_excel(prevStore))

\* a run without new trades on a file that holds a losing trade
C11_Witness ==
    /\ IsRun /\ status = "done" /\ IsEmpty(trade_log)
    /\ prevStore.rows # <<>>
    /\ out.report[1].trades = Len(prevStore.rows)
    /\ out.report[1].total_pnl < 0

\* C12: append_trade_log on a missing file, given a batch of one trade,
\* writes a file of exactly one row, and that row is the batch's trade (its
\* date held as the datetime cell of that date).
C12_MissingFileOneTrade ==
    (wrote /\ prevStore.kind = "missing" /\ Len(batch.rows) = 1) =>
        /\ store.kind = "table"
        /\ Len(store.rows) = 1
        /\ store.cols = batch.cols
        /\ store.rows[1] =
              [batch.rows[1] EXCEPT !["Date"] = [date |-> batch.rows[1]["Date"], t |-> 0]]

\* a direct merge of a one-row batch where there was no file
C12_Witness ==
    /\ op = "merge" /\ wrote
    /\ prevStore = Missing
    /\ Len(batch.rows) = 1
    /\ Len(store.rows) = 1 /\ store.rows[1]["PnL"] = batch.rows[1]["PnL"]

\* C13: for every trade log in date order, with c(k) the sum of the first k
\* PnL, the max drawdown compute_metrics returns is the least c(k) minus the
\* greatest c(j), j <= k; it is <= 0, it is 0 when c never decreases, and
\* it is 0 for the empty log.
C13_MaxDrawdown ==
    op = "metrics" =>
        LET pnl == Column(trade_log.rows, "PnL")
            c(k) == SumSeq(SubSeq(pnl, 1, k))
            md == out.report[1].max_drawdown
        IN  /\ md <= 0
            /\ (\A k \in 1..(Len(pnl) - 1) : c(k) <= c(k + 1)) => md = 0
            /\ pnl = <<>> => md = 0
            /\ pnl # <<>> =>
                  /\ \A k \in 1..Len(pnl) : \A j \in 1..k : md <= c(k) - c(j)
                  /\ \E k \in 1..Len(pnl) : \E j \in 1..k : md = c(k) - c(j)

\* a log that ends in profit after a drawdown from its peak
C13_Witness ==
    /\ op = "metrics"
    /\ Len(trade_log.rows) >= 3
    /\ trade_log.rows[1]["PnL"] > 0
    /\ out.report[1].max_drawdown < 0
    /\ out.report[1].total_pnl > 0

\* C14: a session emits at most one trade, and a session in which a
\* position was opened ends with exactly one: a step taken with a position
\* open never changes the position, its entry price or its entry bar; the
\* step that emits a trade ends the scan; and the step at the last
\* afternoon bar with a position still open emits the "Closing Price" trade.
C14_OneTradePerSession ==
    [][ /\ Len(sscan'.results) <= 1
        /\ sscan.pos # "None" =>
              /\ sscan'.pos = sscan.pos
              /\ sscan'.entry = sscan.entry
              /\ sscan'.entry_idx = sscan.entry_idx
        /\ sscan'.results # <<>> => sphase' = "end"
        /\ (sphase' = "end" /\ sscan'.pos # "None") => Len(sscan'.results) = 1
        /\ (sphase = "fallback" /\ sscan.pos # "None"
                /\ si = Len(slevels.afternoon) - 1) =>
              /\ Len(sscan'.results) = 1
              /\ sscan'.results[1]["Exit Reason"] = "Closing Price"
      ]_vars

\* a scan ended by a confirmed exit with two afternoon bars never visited
C14_Witness ==
    /\ sphase = "end" /\ sscan.pos # "None"
    /\ Len(sscan.results) = 1
    /\ sscan.results[1]["Exit Reason"] # "Closing Price"
    /\ si + 2 < Len(slevels.afternoon)

\* C15: with no position at afternoon bar i and at least 3 bars from i on,
\* whenever bar i has High >= resistance, Open and Close below resistance,
\* and bar i+1 has a lower Low than bar i, the entry rule opens a SHORT at
\* the Open of bar i+2.
C15_ShortTrigger ==
    [][ (sphase = "entry" /\ sscan.pos = "None"
            /\ si <= Len(slevels.afternoon) - 3
            /\ slevels.afternoon[si + 1].High >= slevels.res_level
            /\ slevels.afternoon[si + 1].Open < slevels.res_level
            /\ slevels.afternoon[si + 1].Close < slevels.res_level
            /\ slevels.afternoon[si + 2].Low < slevels.afternoon[si + 1].Low) =>
          /\ sscan'.pos = "SHORT"
          /\ sscan'.entry = slevels.afternoon[si + 3].Open
      ]_vars

\* C16: with no position at afternoon bar i and at least 3 bars from i on,
\* whenever bar i has Low <= support, Open and Close above support, and bar
\* i+1 has a higher High than bar i, the entry rule opens a LONG at the Open
\* of bar i+2; and the entry rule opens nothing at a bar with fewer than 3
\* bars from it on.
C16_LongTrigger ==
    [][ (sphase = "entry" /\ sscan.pos = "None") =>
          /\ si > Len(slevels.afternoon) - 3 => sscan'.pos = "None"
          /\ (si <= Len(slevels.afternoon) - 3
                 /\ slevels.afternoon[si + 1].Low <= slevels.sup_level
                 /\ slevels.afternoon[si + 1].Open > slevels.sup_level
                 /\ slevels.afternoon[si + 1].Close > slevels.sup_level
                 /\ slevels.afternoon[si + 2].High > slevels.afternoon[si + 1].High) =>
                /\ sscan'.pos = "LONG"
                /\ sscan'.entry = slevels.afternoon[si + 3].Open
                /\ sscan'.entry_idx = si + 2
      ]_vars

\* a LONG just opened at the second afternoon bar, a bar that touches both
\* levels, entered at an Open that differs from the confirmation bar's
C16_Witness ==
    /\ sphase = "exit" /\ si = 1
    /\ sscan.pos = "LONG" /\ sscan.entry_idx = si + 2
    /\ slevels.afternoon[si + 1].High >= slevels.res_level
    /\ sscan.entry = slevels.afternoon[si + 3].Open
    /\ sscan.entry # slevels.afternoon[si + 2].Open

\* C17: the levels and the minimum-bar count of an evaluated session come
\* from the bars of [09:30, 11:30) only, and no bar is in both the morning
\* and the afternoon selection.
C17_DisjointWindows ==
    sphase \in {"entry", "exit", "fallback"} =>
        LET reference == SelectSeq(sday, LAMBDA b : T0930 <= b.t /\ b.t < T1130)
            morning == between_time(sday, T0930, T1130)
        IN  /\ Len(reference) >= MinMorningBars
            /\ slevels.sup_level = MinSeq(morning_oc(reference))
            /\ slevels.res_level = MaxSeq(morning_oc(reference))
            /\ SeqToSet(morning) \cap SeqToSet(slevels.afternoon) = {}

\* C18: at the exit step of afternoon bar i, with a position open and a bar
\* i+1 after it, a trade is emitted exactly when the position is LONG, bar
\* i has High >= resistance and bar i+1 a lower Low, or the position is
\* SHORT, bar i has Low <= support and bar i+1 a higher High; the trade
\* exits at the Open of bar i+1 with reason "Resistance Confirmed" for LONG
\* and "Support Confirmed" for SHORT, and the scan ends there.
C18_ConfirmedExit ==
    [][ (sphase = "exit" /\ sscan.pos # "None"
            /\ si < Len(slevels.afternoon) - 1) =>
          LET curr == slevels.afternoon[si + 1]
              next_bar == slevels.afternoon[si + 2]
              long_exit == /\ sscan.pos = "LONG"
                           /\ curr.High >= slevels.res_level
                           /\ next_bar.Low < curr.Low
              short_exit == /\ sscan.pos = "SHORT"
                            /\ curr.Low <= slevels.sup_level
                            /\ next_bar.High > curr.High
          IN  /\ sscan'.results # <<>> <=> (long_exit \/ short_exit)
              /\ (long_exit \/ short_exit) =>
                    /\ sscan'.brk /\ sphase' = "end"
                    /\ Len(sscan'.results) = 1
                    /\ sscan'.results[1]["Exit"] = next_bar.Open
                    /\ sscan'.results[1]["Type"] = sscan.pos
                    /\ sscan'.results[1]["Entry"] = sscan.entry
                    /\ sscan'.results[1]["Exit Reason"] =
                          IF long_exit THEN "Resistance Confirmed"
                                       ELSE "Support Confirmed"
      ]_vars

\* a SHORT closed on its entry bar, which touches support, by the higher
\* High of the bar after it
C18_Witness ==
    /\ sphase = "end" /\ sscan.pos = "SHORT"
    /\ Len(sscan.results) = 1
    /\ sscan.results[1]["Exit Reason"] = "Support Confirmed"
    /\ si = sscan.entry_idx
    /\ slevels.afternoon[si + 1].Low = slevels.sup_level
    /\ sscan.results[1]["Exit"] = slevels.afternoon[si + 2].Open

\* C19: a scan that ends at the last afternoon bar with a position open has
\* emitted a "Closing Price" trade; every "Closing Price" trade has Exit
\* equal to its Close field, the Close of the session's last bar, and was
\* emitted at the last afternoon bar; every other trade was emitted at an
\* earlier bar.
C19_ClosingPriceFallback ==
    /\ (sphase = "end" /\ sscan.pos # "None"
            /\ si = Len(slevels.afternoon) - 1) =>
          /\ Len(sscan.results) = 1
          /\ sscan.results[1]["Exit Reason"] = "Closing Price"
    /\ \A k \in 1..Len(sscan.results) :
          IF sscan.results[k]["Exit Reason"] = "Closing Price"
          THEN /\ sscan.results[k]["Exit"] = sscan.results[k]["Close"]
               /\ sscan.results[k]["Exit"] = sday[Len(sday)].Close
               /\ si = Len(slevels.afternoon) - 1
          ELSE si < Len(slevels.afternoon) - 1

\* a LONG closed in profit at the closing price although the last bar
\* reaches resistance
C19_Witness ==
    /\ sphase = "end" /\ sscan.pos = "LONG"
    /\ Len(sscan.results) = 1
    /\ sscan.results[1]["Exit Reason"] = "Closing Price"
    /\ sscan.results[1]["PnL"] > 0
    /\ slevels.afternoon[si + 1].High >= slevels.res_level
    /\ slevels.afternoon[si + 1].Open # slevels.afternoon[si + 1].Close

\* C20: a session that is skipped, or not yet evaluated, has no position
\* and no trade; in an evaluated one, as long as no afternoon bar visited so
\* far has Low <= support or High >= resistance, no position is open and no
\* trade is emitted; so a session none of whose afternoon bars does, of any
\* length, gives no trade.
C20_NoTouchNoTrade ==
    IF DOMAIN slevels = {}
    THEN sscan.pos = "None" /\ sscan.results = <<>>
    ELSE LET quiet(k) == /\ slevels.afternoon[k].Low > slevels.sup_level
                         /\ slevels.afternoon[k].High < slevels.res_level
         IN  (\A k \in 1..Min2(si + 1, Len(slevels.afternoon)) : quiet(k)) =>
                 (sscan.pos = "None" /\ sscan.results = <<>>)

\* a scan over four afternoon bars inside the range, ended without a trade
C20_Witness ==
    /\ sphase = "end" /\ sexisting = {}
    /\ Len(between_time(sday, T0930, T1130)) >= MinMorningBars
    /\ Len(slevels.afternoon) >= 4
    /\ si = Len(slevels.afternoon) - 1
    /\ \A k \in 1..Len(slevels.afternoon) :
          /\ slevels.afternoon[k].Low > slevels.sup_level
          /\ slevels.afternoon[k].High < slevels.res_level
    /\ sscan.results = <<>>

\* C21: for every trade closed by a confirmed exit, the bar whose Open is
\* the exit price (the bar after the one the exit was tested on) comes
\* after the entry bar, so the exit test was made on the entry bar or on a
\* later one, never on the signal bar or the confirmation bar.
C21_ExitAfterEntry ==
    \A k \in 1..Len(sscan.results) :
        sscan.results[k]["Exit Reason"] # "Closing Price" =>
            /\ si + 1 > sscan.entry_idx
            /\ si >= sscan.entry_idx

\* C22: a LONG trade's exit reason is "Resistance Confirmed" or "Closing
\* Price", a SHORT trade's is "Support Confirmed" or "Closing Price".
C22_ReasonMatchesType ==
    \A k \in 1..Len(sscan.results) :
        LET t == sscan.results[k]
        IN  /\ t["Type"] = "LONG" =>
                  t["Exit Reason"] \in {"Resistance Confirmed", "Closing Price"}
            /\ t["Type"] = "SHORT" =>
                  t["Exit Reason"] \in {"Support Confirmed", "Closing Price"}

\* a LONG closed by "Resistance Confirmed" on a bar that reaches support too
C22_Witness ==
    /\ sphase = "end"
    /\ Len(sscan.results) = 1
    /\ sscan.results[1]["Type"] = "LONG"
    /\ sscan.results[1]["Exit Reason"] = "Resistance Confirmed"
    /\ slevels.afternoon[si + 1].Low <= slevels.sup_level

===========================================================================
